---------------------------- MODULE Spec2Model ----------------------------
(***************************************************************************)
(* Model of the paginated discovery-and-classification pipeline of         *)
(* mcp-almanac: fetchTopicRepos (src/src/lib/github.ts) and the denylist   *)
(* revision of findPotentialServers / fetchFileContent /                   *)
(* getNonServerPaths / storeNonServer (src/unnamed/part_000, lines 1-364). *)
(*                                                                         *)
(* Four specifications share the state and the actions: Spec is one run    *)
(* of findPotentialServers against any provider; TwoRunSpec is two runs    *)
(* in a row against an unchanged provider behind a warm cache; StoreSpec   *)
(* is any sequence of direct calls of storeNonServer and                   *)
(* getNonServerPaths; DirectSpec is a direct call of fetchTopicRepos with  *)
(* any options.                                                            *)
(*                                                                         *)
(* Text is modelled as a sequence of tokens: one token per character,      *)
(* except that a literal without separator characters ("repoPath", an      *)
(* ISO timestamp) is a single token.                                       *)
(***************************************************************************)
EXTENDS Integers, Sequences, FiniteSets, TLC

\* ------------------------------------------------------------------ bounds
\* The provider serves at most MaxPages pages in the model.
MaxPages == 2
\* A served page holds at most MaxPageLen items.
MaxPageLen == 2
\* repoLimit ranges up to MaxLimit.
MaxLimit == 2
\* At most MaxStored direct calls of storeNonServer succeed.
MaxStored == 2

\* ------------------------------------------------------- program constants
perPage == 100

\* ----------------------------------------------------------------- helpers
Min(a, b) == IF a <= b THEN a ELSE b

Take(s, n) == SubSeq(s, 1, Min(n, Len(s)))

SeqsUpTo(S, n) == UNION {[1..k -> S] : k \in 0..n}

\* HTTP: response.ok is true for the 2xx statuses.
Ok(status) == status >= 200 /\ status <= 299

\* --------------------------------------------------- search items (schemas)
\* A raw search item.  description is "string" or "null"; complete says
\* whether every other field ItemSchema requires is present and well typed.
Item(l, n, d, c) == [login |-> l, name |-> n, description |-> d, complete |-> c]

RepoX == Item(<<"a">>, <<"x">>, "string", TRUE)
RepoY == Item(<<"a">>, <<"y">>, "string", TRUE)
\* passes ItemSchema (login: z.string()) but not MiniItemSchema (min(1))
EmptyLogin == Item(<<>>, <<"x">>, "string", TRUE)
\* description: null
NullDescription == Item(<<"a">>, <<"y">>, "null", TRUE)
\* a required field is missing
MissingField == Item(<<"a">>, <<"x">>, "string", FALSE)

SearchItems == {RepoX, RepoY, EmptyLogin, NullDescription, MissingField}

\* ItemSchema: every field required, description a string.
ItemSchema(item) == item.complete /\ item.description = "string"

\* MiniItemSchema.safeParse(item).success: the six picked fields of
\* ItemSchema, and owner.login of length >= 1.
MiniItemSchema(item) ==
    /\ item.complete
    /\ item.description = "string"
    /\ Len(item.login) >= 1

\* MiniItemSchema.safeParse(item).data: the picked fields.
MiniItem(item) == [login |-> item.login, name |-> item.name,
                   description |-> item.description]

\* `${repo.owner.login}/${repo.name}`
RepoPath(repo) == repo.login \o <<"/">> \o repo.name

\* ---------------------------------------------------------- search provider
\* Body of a search response: json = the body parses as JSON; shape = it is
\* an object with a numeric total_count, a boolean incomplete_results and an
\* array items; items = that array.
SearchBody(j, s, its) == [json |-> j, shape |-> s, items |-> its]

Pages == SeqsUpTo(SearchItems, MaxPageLen)

SearchBodies ==
    {SearchBody(FALSE, FALSE, <<>>), SearchBody(TRUE, FALSE, <<>>)}
        \cup {SearchBody(TRUE, TRUE, p) : p \in Pages}

\* kind "reject": cachedFetch rejects (transport failure).  mediaType: the
\* response carries the x-github-media-type header.
SearchResponse(k, st, mt, b) == [kind |-> k, status |-> st, mediaType |-> mt, body |-> b]

NoSearchResponse == SearchResponse("none", 0, FALSE, SearchBody(FALSE, FALSE, <<>>))

SearchResponses ==
    {SearchResponse("reject", 0, FALSE, SearchBody(FALSE, FALSE, <<>>))}
        \cup {SearchResponse("http", 500, mt, SearchBody(TRUE, FALSE, <<>>)) : mt \in BOOLEAN}
        \cup {SearchResponse("http", 200, mt, b) : mt \in BOOLEAN, b \in SearchBodies}

\* GitHubSearchResponseSchema.safeParse(rawData).success
GitHubSearchResponseSchema(body) ==
    /\ body.shape
    /\ \A i \in 1..Len(body.items) : ItemSchema(body.items[i])


\* ------------------------------------------------------ fetchTopicRepos loop
\* The headers the rate-limit status line is derived from.
RateLimitHeaders == {"x-ratelimit-limit", "x-ratelimit-remaining", "x-ratelimit-reset"}

\* A response together with the rate-limit headers it carries.
WithHeaders(response, headers) ==
    [kind |-> response.kind, status |-> response.status,
     mediaType |-> response.mediaType, body |-> response.body, rateLimit |-> headers]

\* Mutant of logRateLimitStatus: a missing rate-limit header is asserted too.
logRateLimitStatusStrict(response) ==
    response.mediaType /\ response.rateLimit = RateLimitHeaders

\* logRateLimitStatus(response) returns normally (TRUE) or raises (FALSE):
\* assert.truthy(response.headers.get("x-github-media-type")).  The
\* rate-limit headers only select what it logs.
logRateLimitStatus(response) == response.mediaType

\* What logRateLimitStatus logs when it returns: the status line
\* (console.info) when limit, remaining and reset are all there, else the
\* warning that some are missing.
RateLimitLine(response) ==
    IF response.rateLimit = RateLimitHeaders THEN "info" ELSE "warn"

\* Mutant of ValidateAndAdd: the loop does not stop at the limit.
RECURSIVE ValidateAndAddNoLimit(_, _, _)
ValidateAndAddNoLimit(acc, items, limit) ==
    IF items = <<>> THEN acc
    ELSE IF MiniItemSchema(Head(items))
         THEN ValidateAndAddNoLimit(Append(acc, MiniItem(Head(items))), Tail(items), limit)
         ELSE ValidateAndAddNoLimit(acc, Tail(items), limit)

\* Mutant of ValidateAndAdd: an item that fails validation is pushed too.
RECURSIVE ValidateAndAddUnchecked(_, _, _)
ValidateAndAddUnchecked(acc, items, limit) ==
    IF items = <<>> THEN acc
    ELSE LET pushed == Append(acc, MiniItem(Head(items)))
         IN  IF Len(pushed) >= limit THEN pushed
             ELSE ValidateAndAddUnchecked(pushed, Tail(items), limit)

\* The for loop over data.items: push every item MiniItemSchema accepts,
\* stop at repoLimit, skip (warn) the others.
RECURSIVE ValidateAndAdd(_, _, _)
ValidateAndAdd(acc, items, limit) ==
    IF items = <<>> THEN acc
    ELSE IF MiniItemSchema(Head(items))
         THEN LET pushed == Append(acc, MiniItem(Head(items)))
              IN  IF Len(pushed) >= limit THEN pushed
                  ELSE ValidateAndAdd(pushed, Tail(items), limit)
         ELSE ValidateAndAdd(acc, Tail(items), limit)

Step(c, a, e) == [ctl |-> c, acc |-> a, error |-> e]

\* Mutant of LoopBody: an empty page does not end the loop.
LoopBodyNoEmptyBreak(response, acc, limit) ==
    IF response.kind = "reject" THEN Step("throw", acc, "transport")
    ELSE IF ~logRateLimitStatus(response) THEN Step("throw", acc, "mediaType")
    ELSE IF ~Ok(response.status) THEN Step("throw", acc, "status")
    ELSE IF ~response.body.json THEN Step("throw", acc, "json")
    ELSE IF ~GitHubSearchResponseSchema(response.body) THEN Step("break", acc, "none")
    ELSE LET added == ValidateAndAdd(acc, response.body.items, limit)
         IN  IF Len(added) >= limit THEN Step("break", added, "none")
             ELSE Step("next", added, "none")

\* Mutant of LoopBody: a page whose envelope fails validation is passed over
\* and the next page is requested.
LoopBodySkipsBadEnvelope(response, acc, limit) ==
    IF response.kind = "reject" THEN Step("throw", acc, "transport")
    ELSE IF ~logRateLimitStatus(response) THEN Step("throw", acc, "mediaType")
    ELSE IF ~Ok(response.status) THEN Step("throw", acc, "status")
    ELSE IF ~response.body.json THEN Step("throw", acc, "json")
    ELSE IF ~GitHubSearchResponseSchema(response.body) THEN Step("next", acc, "none")
    ELSE IF Len(response.body.items) = 0 THEN Step("break", acc, "none")
    ELSE LET added == ValidateAndAdd(acc, response.body.items, limit)
         IN  IF Len(added) >= limit THEN Step("break", added, "none")
             ELSE Step("next", added, "none")

\* One iteration of `while (allRepos.length < repoLimit)` after the await of
\* cachedFetch settled with `response`: ctl is "throw" (the call rejects with
\* error), "break" (the loop ends, allRepos is returned) or "next" (page++).
LoopBody(response, acc, limit) ==
    IF response.kind = "reject" THEN Step("throw", acc, "transport")
    ELSE IF ~logRateLimitStatus(response) THEN Step("throw", acc, "mediaType")
    ELSE IF ~Ok(response.status) THEN Step("throw", acc, "status")
    ELSE IF ~response.body.json THEN Step("throw", acc, "json")
    ELSE IF ~GitHubSearchResponseSchema(response.body) THEN Step("break", acc, "none")
    ELSE IF Len(response.body.items) = 0 THEN Step("break", acc, "none")
    ELSE LET added == ValidateAndAdd(acc, response.body.items, limit)
         IN  IF Len(added) >= limit THEN Step("break", added, "none")
             ELSE Step("next", added, "none")

\* ------------------------------------------------------------- the manifest
SDK == "@modelcontextprotocol/sdk"

\* JSON values of the manifest fields that the pipeline reads.
Undefined == [type |-> "undefined", str |-> "", keys |-> {}]
StringValue(s) == [type |-> "string", str |-> s, keys |-> {}]
RecordValue(k) == [type |-> "object", str |-> "", keys |-> k]
NumberValue == [type |-> "number", str |-> "", keys |-> {}]

\* A dependency mapping: package name -> version string.
NoDeps == [type |-> "undefined", map |-> <<>>]
Deps(m) == [type |-> "object", map |-> m]

\* Body of a manifest response.  isObject: the JSON value is an object;
\* otherKeys: it has keys besides bin, dependencies and devDependencies.
Manifest(j, o, k, b, d, dd) ==
    [json |-> j, isObject |-> o, otherKeys |-> k,
     bin |-> b, dependencies |-> d, devDependencies |-> dd]

NotJson == Manifest(FALSE, FALSE, FALSE, Undefined, NoDeps, NoDeps)
NotObject == Manifest(TRUE, FALSE, FALSE, Undefined, NoDeps, NoDeps)
EmptyObject == Manifest(TRUE, TRUE, FALSE, Undefined, NoDeps, NoDeps)
IllTyped == Manifest(TRUE, TRUE, TRUE, NumberValue, NoDeps, NoDeps)

BinValues == {Undefined, StringValue(""), StringValue("cli.js"),
              RecordValue({}), RecordValue({"cmd"})}

DependenciesValues == {NoDeps, Deps([k \in {"zod"} |-> "3.0.0"]),
                       Deps([k \in {SDK} |-> "1.0.0"]), Deps([k \in {SDK} |-> ""])}

DevDependenciesValues == {NoDeps, Deps([k \in {SDK} |-> "1.0.0"])}

Manifests ==
    {NotJson, NotObject, EmptyObject, IllTyped}
        \cup {Manifest(TRUE, TRUE, TRUE, b, d, dd) :
                b \in BinValues, d \in DependenciesValues, dd \in DevDependenciesValues}

ManifestResponse(k, st, b) == [kind |-> k, status |-> st, body |-> b]

NoManifestResponse == ManifestResponse("none", 0, NotJson)

ManifestResponses ==
    {ManifestResponse("reject", 0, NotJson),
     ManifestResponse("http", 404, NotJson),
     ManifestResponse("http", 403, NotJson),
     ManifestResponse("http", 500, NotJson)}
        \cup {ManifestResponse("http", 200, m) : m \in Manifests}

\* assert.nonEmptyObject(rawData)
NonEmptyObject(body) ==
    /\ body.isObject
    /\ \/ body.otherKeys
       \/ body.bin.type # "undefined"
       \/ body.dependencies.type # "undefined"
       \/ body.devDependencies.type # "undefined"

Fetched(c, n, d) == [ctl |-> c, isNull |-> n, data |-> d]

\* Mutant of fetchFileContent: a non-OK status other than 404 is raised as
\* an error.
fetchFileContentRaisesNonOk(response) ==
    IF response.kind = "reject" THEN Fetched("throw", FALSE, NotJson)
    ELSE IF response.status = 404 THEN Fetched("return", TRUE, NotJson)
    ELSE IF ~Ok(response.status) THEN Fetched("throw", FALSE, NotJson)
    ELSE IF ~response.body.json THEN Fetched("throw", FALSE, NotJson)
    ELSE IF ~NonEmptyObject(response.body) THEN Fetched("throw", FALSE, NotJson)
    ELSE Fetched("return", FALSE, response.body)

\* fetchFileContent after cachedFetch settled with `response`: ctl "return"
\* with null or rawData, or "throw" (the catch block rethrows).
fetchFileContent(response) ==
    IF response.kind = "reject" THEN Fetched("throw", FALSE, NotJson)
    ELSE IF response.status = 404 THEN Fetched("return", TRUE, NotJson)
    ELSE IF ~Ok(response.status) THEN Fetched("return", TRUE, NotJson)
    ELSE IF ~response.body.json THEN Fetched("throw", FALSE, NotJson)
    ELSE IF ~NonEmptyObject(response.body) THEN Fetched("throw", FALSE, NotJson)
    ELSE Fetched("return", FALSE, response.body)

\* The z.object({bin, dependencies, devDependencies}).parse(...) succeeds.
PkgSchema(data) ==
    /\ data.isObject
    /\ data.bin.type \in {"undefined", "string", "object"}
    /\ data.dependencies.type \in {"undefined", "object"}
    /\ data.devDependencies.type \in {"undefined", "object"}

\* JavaScript's !!value for the values above.
Truthy(v) ==
    CASE v.type = "undefined" -> FALSE
      [] v.type = "string" -> v.str # ""
      [] OTHER -> TRUE

\* deps?.[key]
Lookup(deps, key) ==
    IF deps.type = "undefined" THEN Undefined
    ELSE IF key \in DOMAIN deps.map THEN StringValue(deps.map[key])
    ELSE Undefined

\* const hasBin = !!pkg.bin
HasBin(pkg) == Truthy(pkg.bin)

\* const hasSdkDep = !!pkg.dependencies?.[SDK] || !!pkg.devDependencies?.[SDK]
HasSdkDep(pkg) ==
    Truthy(Lookup(pkg.dependencies, SDK)) \/ Truthy(Lookup(pkg.devDependencies, SDK))

\* ------------------------------------------------- the denylist store (CSV)
\* data/non-servers.csv: exists says whether the file is there, content is
\* its text.
NoFile == [exists |-> FALSE, content |-> <<>>]
File(c) == [exists |-> TRUE, content |-> c]

Header == <<"repoPath", ",", "lastChecked", "\n">>

\* new Date().toISOString()
Timestamp == "2026-01-01T00:00:00.000Z"

\* const csvLine = `${repoPath},${lastChecked}\n`
CsvLine(repo) == RepoPath(repo) \o <<",", Timestamp, "\n">>

\* String.prototype.split(sep) for a one-token separator.
RECURSIVE SplitFrom(_, _, _)
SplitFrom(text, sep, piece) ==
    IF text = <<>> THEN <<piece>>
    ELSE IF Head(text) = sep THEN <<piece>> \o SplitFrom(Tail(text), sep, <<>>)
    ELSE SplitFrom(Tail(text), sep, Append(piece, Head(text)))

Split(text, sep) == SplitFrom(text, sep, <<>>)

Whitespace == {" ", "\t", "\r", "\n"}

\* String.prototype.trim()
RECURSIVE TrimStart(_)
TrimStart(text) ==
    IF text # <<>> /\ Head(text) \in Whitespace THEN TrimStart(Tail(text)) ELSE text

RECURSIVE TrimEnd(_)
TrimEnd(text) ==
    IF text # <<>> /\ text[Len(text)] \in Whitespace
    THEN TrimEnd(SubSeq(text, 1, Len(text) - 1)) ELSE text

Trim(text) == TrimEnd(TrimStart(text))

\* z.string().datetime(): of the tokens of the model, the one toISOString()
\* produces is a datetime.
IsDatetime(t) == t = Timestamp

\* NonServerSchema.safeParse(record).success: the refinement of repoPath,
\*   const [owner, name] = path.split("/"); return owner && name;
\* (a missing element is undefined, the empty string is falsy), and
\* lastChecked a datetime.
NonServerSchema(record) ==
    /\ LET parts == Split(record.repoPath, "/")
       IN  /\ parts[1] # <<>>
           /\ Len(parts) >= 2
           /\ parts[2] # <<>>
    /\ IsDatetime(record.lastChecked)

\* getNonServerPaths(): the empty set when the file is absent or cannot be
\* read; else the first column of every non-blank line after the header.
getNonServerPaths(st, readOk) ==
    IF ~st.exists THEN {}
    ELSE IF ~readOk THEN {}
    ELSE LET lines == Tail(Split(st.content, "\n"))
         IN  {Head(Split(lines[i], ",")) :
                 i \in {j \in 1..Len(lines) : Trim(lines[j]) # <<>>}}

Stored(t, st) == [throws |-> t, store |-> st]

\* Mutant of storeNonServer: the entry is written without the append flag,
\* so it replaces the file.
storeNonServerOverwrites(repo, st, io) ==
    IF ~st.exists /\ io = "failHeader" THEN Stored(TRUE, st)
    ELSE LET withHeader == IF st.exists THEN st ELSE File(Header)
         IN  IF io = "failAppend" THEN Stored(TRUE, withHeader)
             ELSE Stored(FALSE, File(CsvLine(repo)))

\* storeNonServer(repo) on store st.  io: "ok", "failHeader" (mkdir or the
\* header write fails) or "failAppend" (the append fails); a failure is
\* rethrown.
storeNonServer(repo, st, io) ==
    IF ~st.exists /\ io = "failHeader" THEN Stored(TRUE, st)
    ELSE LET withHeader == IF st.exists THEN st ELSE File(Header)
         IN  IF io = "failAppend" THEN Stored(TRUE, withHeader)
             ELSE Stored(FALSE, File(withHeader.content \o CsvLine(repo)))

IoOutcomes == {"ok", "failHeader", "failAppend"}

\* The outcomes of the writes a round issues: storeNonServer runs only for
\* a manifest that was fetched, parsed and did not meet both criteria.
WritesOf(response) ==
    LET content == fetchFileContent(response)
    IN  IF /\ content.ctl = "return"
           /\ ~content.isNull
           /\ PkgSchema(content.data)
           /\ ~(HasBin(content.data) /\ HasSdkDep(content.data))
        THEN IoOutcomes
        ELSE {"ok"}

\* A store as storeNonServer leaves it: absent, or the header and one line
\* per rejected repository.
RECURSIVE FileOf(_)
FileOf(rs) == IF rs = <<>> THEN Header ELSE FileOf(SubSeq(rs, 1, Len(rs) - 1)) \o CsvLine(rs[Len(rs)])

InitialStores ==
    {NoFile, File(FileOf(<<MiniItem(RepoX)>>)), File(FileOf(<<MiniItem(RepoY)>>)),
     File(FileOf(<<MiniItem(RepoX), MiniItem(RepoY)>>))}

\* ------------------------------------------------ one classification round
Round(c, a, st, e, b, s) ==
    [ctl |-> c, accept |-> a, store |-> st, error |-> e, hasBin |-> b, hasSdkDep |-> s]

\* Mutant of CheckManifest: a repository without manifest (null) is treated
\* as a non-server and stored in the denylist.
CheckManifestStoresMissing(repo, response, st, io) ==
    LET content == fetchFileContent(response)
    IN  IF content.ctl = "throw" THEN Round("throw", FALSE, st, "fetchFileContent", FALSE, FALSE)
        ELSE IF content.isNull
             THEN Round("continue", FALSE, storeNonServer(repo, st, "ok").store, "none", FALSE, FALSE)
        ELSE IF ~PkgSchema(content.data) THEN Round("throw", FALSE, st, "pkgSchema", FALSE, FALSE)
        ELSE LET b == HasBin(content.data)
                 s == HasSdkDep(content.data)
             IN  IF b /\ s THEN Round("continue", TRUE, st, "none", b, s)
                 ELSE LET w == storeNonServer(repo, st, io)
                      IN  IF w.throws THEN Round("throw", FALSE, w.store, "storeNonServer", b, s)
                          ELSE Round("continue", FALSE, w.store, "none", b, s)

\* The body of `for (const repo of repos)` for a repository that is not a
\* known non-server, after the manifest request settled with `response`:
\* ctl "continue" (next repository) or "throw" (the run rejects).
CheckManifest(repo, response, st, io) ==
    LET content == fetchFileContent(response)
    IN  IF content.ctl = "throw" THEN Round("throw", FALSE, st, "fetchFileContent", FALSE, FALSE)
        ELSE IF content.isNull THEN Round("continue", FALSE, st, "none", FALSE, FALSE)
        ELSE IF ~PkgSchema(content.data) THEN Round("throw", FALSE, st, "pkgSchema", FALSE, FALSE)
        ELSE LET b == HasBin(content.data)
                 s == HasSdkDep(content.data)
             IN  IF b /\ s THEN Round("continue", TRUE, st, "none", b, s)
                 ELSE LET w == storeNonServer(repo, st, io)
                      IN  IF w.throws THEN Round("throw", FALSE, w.store, "storeNonServer", b, s)
                          ELSE Round("continue", FALSE, w.store, "none", b, s)

\* -------------------------------------------------------------- the upstream
\* What cachedFetch answers.  kind "any": every request may be answered by
\* any response, each with all the rate-limit headers.  kind "bare": the same,
\* and a response may lack any of the rate-limit headers.  kind "fixed": the same response for the same request (a
\* warm cache over an unchanged provider): the provider holds `results`,
\* serves them as page 1 and serves every later page empty, and answers the
\* manifest request for a path with manifests[path].
Upstream(k, r, m) == [kind |-> k, results |-> r, manifests |-> m]

AnyUpstream == Upstream("any", <<>>, <<>>)

BareUpstream == Upstream("bare", <<>>, <<>>)

\* The rate-limit headers a response may carry.
RateLimitUpstream(up) ==
    IF up.kind = "bare" THEN SUBSET RateLimitHeaders ELSE {RateLimitHeaders}

\* The responses to the search request for page p.
SearchUpstream(up, p) ==
    IF up.kind # "fixed" THEN SearchResponses
    ELSE {SearchResponse("http", 200, TRUE,
                         SearchBody(TRUE, TRUE, IF p = 1 THEN up.results ELSE <<>>))}

\* The responses to the manifest request for repo.
ManifestUpstream(up, repo) ==
    IF up.kind # "fixed" THEN ManifestResponses
    ELSE {up.manifests[RepoPath(repo)]}

\* ------------------------------------------------------------ preconditions
McpServer == <<"mcp-server">>

\* Mutant of Preconditions: the topic is not asserted.
PreconditionsWithoutTopic(t, isInteger, limit) == isInteger /\ limit > 0

\* The assertions fetchTopicRepos opens with, all passing: nonEmptyString
\* (topic), integer(repoLimit), truthy(repoLimit > 0).  The argument
\* repoLimit is the number limit when isInteger, limit + 0.5 when not.
Preconditions(t, isInteger, limit) == t # <<>> /\ isInteger /\ limit > 0

\* -------------------------------------------------------------------- state
VARIABLES
    pc,                \* where the run is: "start", "search", "returned",
                       \* "classify", "done", "aborted"; "call" before a
                       \* direct call of fetchTopicRepos; "idle" and "loaded"
                       \* between direct calls of the store's functions
    topic,             \* fetchTopicRepos: options.topic
    repoLimit,         \* options.repoLimit (its integer part)
    integral,          \* options.repoLimit is an integer
    upstream,          \* what cachedFetch answers
    store,             \* data/non-servers.csv
    nonServerPaths,    \* the set getNonServerPaths() returned
    allRepos,          \* fetchTopicRepos: the accumulator
    page,              \* fetchTopicRepos: the page to request next
    searchResponse,    \* fetchTopicRepos: the response of the last request
    rateLimitLog,      \* what logRateLimitStatus logged for it: "info", "warn"
                       \* or "none" (it raised, or there was no response)
    requested,         \* history: the search requests issued, in order
    served,            \* history: the items of the pages whose envelope validated
    repos,             \* findPotentialServers: the candidates
    idx,               \* findPotentialServers: position of the for loop in repos
    potentialServers,  \* findPotentialServers: the accepted list
    manifestResponse,  \* the response of the last manifest request of the
                       \* current round (none when the round issued none)
    hasBin,            \* the last round's hasBin
    hasSdkDep,         \* the last round's hasSdkDep
    error,             \* why the run rejected ("none" while it has not)
    run,               \* the number of the run of findPotentialServers
    firstAccepted,     \* history: the list the first run returned
    storeAtStart,      \* history: the store when the run started
    loads,             \* history: the outcome of each getNonServerPaths call
    manifestRequests,  \* history: the paths of the run's manifest requests
    appended           \* history: the repositories whose line was appended

vars == <<pc, topic, repoLimit, integral, upstream, store, nonServerPaths,
          allRepos, page, searchResponse, rateLimitLog, requested, served, repos, idx,
          potentialServers, manifestResponse, hasBin, hasSdkDep, error, run,
          firstAccepted, storeAtStart, loads, manifestRequests, appended>>

argVars == <<topic, repoLimit, integral, upstream>>
searchVars == <<allRepos, page, searchResponse, rateLimitLog, requested, served>>
classifyVars == <<repos, idx, potentialServers, manifestResponse, hasBin, hasSdkDep>>
runVars == <<run, firstAccepted, storeAtStart>>
historyVars == <<loads, manifestRequests, appended>>

\* The state of a process that has not called anything yet.
Fresh ==
    /\ nonServerPaths = {}
    /\ allRepos = <<>>
    /\ page = 1
    /\ searchResponse = NoSearchResponse
    /\ rateLimitLog = "none"
    /\ requested = <<>>
    /\ served = <<>>
    /\ repos = <<>>
    /\ idx = 0
    /\ potentialServers = <<>>
    /\ manifestResponse = NoManifestResponse
    /\ hasBin = FALSE
    /\ hasSdkDep = FALSE
    /\ error = "none"
    /\ run = 1
    /\ firstAccepted = <<>>
    /\ storeAtStart = store
    /\ loads = <<>>
    /\ manifestRequests = <<>>
    /\ appended = <<>>

\* findPotentialServers({repoLimit}) is called: any number of candidates
\* asked for (0 and the non-integers fail the assertions of fetchTopicRepos),
\* any store earlier runs left, any provider.
Init ==
    /\ pc = "start"
    /\ topic = McpServer
    /\ repoLimit \in 0..MaxLimit
    /\ integral \in BOOLEAN
    /\ upstream = AnyUpstream
    /\ store \in InitialStores
    /\ Fresh

\* The outcomes of the read in getNonServerPaths: nothing is read when the
\* file does not exist.
ReadOutcomes(st) == IF st.exists THEN BOOLEAN ELSE {TRUE}

\* findPotentialServers up to its first request: the denylist is loaded and
\* fetchTopicRepos({topic: "mcp-server", repoLimit}) is called; it asserts
\* its preconditions.
LoadNonServers ==
    /\ pc = "start"
    /\ \E readOk \in ReadOutcomes(store) :
         /\ nonServerPaths' = getNonServerPaths(store, readOk)
         /\ loads' = Append(loads, readOk)
    /\ IF Preconditions(topic, integral, repoLimit)
       THEN pc' = "search" /\ error' = error
       ELSE pc' = "aborted" /\ error' = "precondition"
    /\ UNCHANGED <<argVars, store, searchVars, classifyVars, runVars,
                   manifestRequests, appended>>

\* One iteration of the pagination loop: the request for `page` and all that
\* follows until the next request, the return or the rejection.
FetchPage ==
    /\ pc = "search"
    /\ Len(allRepos) < repoLimit
    /\ page <= MaxPages
    /\ \E response \in SearchUpstream(upstream, page) :
       \E headers \in RateLimitUpstream(upstream) :
         LET received == WithHeaders(response, headers)
             out == LoopBody(received, allRepos, repoLimit)
         IN  /\ requested' = Append(requested, [page |-> page, per_page |-> perPage])
             /\ searchResponse' = response
             /\ rateLimitLog' = IF response.kind = "http" /\ logRateLimitStatus(received)
                                THEN RateLimitLine(received)
                                ELSE "none"
             /\ served' = IF /\ response.kind = "http"
                             /\ response.mediaType
                             /\ Ok(response.status)
                             /\ response.body.json
                             /\ GitHubSearchResponseSchema(response.body)
                          THEN served \o response.body.items
                          ELSE served
             /\ allRepos' = out.acc
             /\ page' = IF out.ctl = "next" THEN page + 1 ELSE page
             /\ pc' = CASE out.ctl = "throw" -> "aborted"
                        [] out.ctl = "break" -> "returned"
                        [] OTHER -> "search"
             /\ error' = out.error
    /\ UNCHANGED <<argVars, store, nonServerPaths, classifyVars, runVars, historyVars>>

\* findPotentialServers resumes with the candidates:
\* assert.nonEmptyArray(repos), then the for loop starts.
ResumeAfterFetch ==
    /\ pc = "returned"
    /\ repos' = allRepos
    /\ IF allRepos = <<>>
       THEN pc' = "aborted" /\ error' = "emptyRepos" /\ idx' = idx
       ELSE pc' = "classify" /\ error' = error /\ idx' = 1
    \* the locals of the fetchTopicRepos call, and its history, end with it
    /\ allRepos' = <<>>
    /\ page' = 1
    /\ searchResponse' = NoSearchResponse
    /\ rateLimitLog' = "none"
    /\ requested' = <<>>
    /\ served' = <<>>
    /\ UNCHANGED <<argVars, store, nonServerPaths, potentialServers,
                   manifestResponse, hasBin, hasSdkDep, runVars, historyVars>>

\* Mutant of AfterRound: the accepted list is not asserted to be non-empty.
AfterRoundWithoutAssert(accepted) ==
    IF idx < Len(repos)
    THEN pc' = "classify" /\ error' = error
    ELSE pc' = "done" /\ error' = error

\* What follows a round that ended with `continue` or fell through: the next
\* repository, or after the last one assert.nonEmptyArray(potentialServers)
\* and the report.
AfterRound(accepted) ==
    IF idx < Len(repos)
    THEN pc' = "classify" /\ error' = error
    ELSE IF accepted = <<>>
         THEN pc' = "aborted" /\ error' = "emptyServers"
         ELSE pc' = "done" /\ error' = error

\* Mutant of KnownNonServer: no repository is recognised as known.
KnownNonServerNever(repo, paths) == FALSE

\* The test that skips a round: nonServerPaths.has(repoPath).
KnownNonServer(repo, paths) == RepoPath(repo) \in paths

\* A round for a repository whose path is in nonServerPaths: skipped.
SkipKnown ==
    /\ pc = "classify"
    /\ idx <= Len(repos)
    /\ KnownNonServer(repos[idx], nonServerPaths)
    /\ idx' = idx + 1
    /\ manifestResponse' = NoManifestResponse
    /\ AfterRound(potentialServers)
    /\ UNCHANGED <<argVars, store, nonServerPaths, searchVars, repos,
                   potentialServers, hasBin, hasSdkDep, runVars, historyVars>>

\* A round for any other repository: the manifest request and the
\* classification.
CheckRepo ==
    /\ pc = "classify"
    /\ idx <= Len(repos)
    /\ ~KnownNonServer(repos[idx], nonServerPaths)
    /\ \E response \in ManifestUpstream(upstream, repos[idx]) :
       \E io \in WritesOf(response) :
         LET out == CheckManifest(repos[idx], response, store, io)
             accepted == IF out.accept THEN Append(potentialServers, repos[idx])
                         ELSE potentialServers
         IN  /\ manifestRequests' = Append(manifestRequests, RepoPath(repos[idx]))
             /\ manifestResponse' = response
             /\ store' = out.store
             /\ appended' = IF out.store # store /\ out.error # "storeNonServer"
                            THEN Append(appended, repos[idx])
                            ELSE appended
             /\ hasBin' = out.hasBin
             /\ hasSdkDep' = out.hasSdkDep
             /\ potentialServers' = accepted
             /\ idx' = idx + 1
             /\ IF out.ctl = "throw"
                THEN pc' = "aborted" /\ error' = out.error
                ELSE AfterRound(accepted)
    /\ UNCHANGED <<argVars, nonServerPaths, searchVars, repos, runVars, loads>>

\* The script's exit code: process.exit(0) after findPotentialServers
\* returned, process.exit(1) in the catch block; -1 while the run goes on.
ExitCode ==
    IF pc = "done" THEN 0
    ELSE IF pc = "aborted" THEN 1
    ELSE -1

Next ==
    \/ LoadNonServers
    \/ FetchPage
    \/ ResumeAfterFetch
    \/ SkipKnown
    \/ CheckRepo

Spec == Init /\ [][Next]_vars

\* ------------------------------------------------------- claims: the search
MapMiniItem(items) == [i \in 1..Len(items) |-> MiniItem(items[i])]

\* The step is an iteration of the pagination loop (a request was issued).
PageStep == pc = "search" /\ Len(requested') = Len(requested) + 1

\* A response that is successful and valid: 2xx, a GitHub API response (it
\* carries the media-type header logRateLimitStatus asserts), a JSON body
\* that GitHubSearchResponseSchema accepts.
ValidPage(response) ==
    /\ response.kind = "http"
    /\ Ok(response.status)
    /\ response.mediaType
    /\ response.body.json
    /\ GitHubSearchResponseSchema(response.body)

\* C1: the accumulator of fetchTopicRepos never holds more than repoLimit
\* items (it only grows by push, so its length after an iteration bounds its
\* length during it), and neither does the sequence it returns.
C1_AccumulatorWithinLimit ==
    /\ Len(allRepos) <= repoLimit
    /\ Len(repos) <= repoLimit

\* C1 witness: the call returned repoLimit items although the pages it
\* processed held more valid items than that.
C1_Witness ==
    /\ pc = "returned"
    /\ Len(allRepos) = repoLimit
    /\ Len(SelectSeq(served, MiniItemSchema)) > repoLimit

C3_EmptyPageStops ==
    [][/\ (PageStep /\ ValidPage(searchResponse') /\ searchResponse'.body.items = <<>>)
          => (pc' = "returned" /\ allRepos' = allRepos /\ page' = page)
       /\ pc = "returned" => (pc' # "search" /\ Len(requested') <= Len(requested))]_vars

\* C3 witness: the second page was empty and the call returned the items of
\* the first.
C3_Witness ==
    /\ pc = "returned"
    /\ ValidPage(searchResponse)
    /\ searchResponse.body.items = <<>>
    /\ Len(requested) = 2
    /\ allRepos # <<>>

\* C4 (as claimed): a search response with a non-successful status, even one
\* that carries the media-type header, ends the loop and the call returns
\* normally the items accumulated before it.
C4_NonOkReturnsAccumulated ==
    [][(/\ PageStep
        /\ searchResponse'.kind = "http"
        /\ searchResponse'.mediaType
        /\ ~Ok(searchResponse'.status))
          => (pc' = "returned" /\ allRepos' = allRepos /\ error' = "none")]_vars

\* C5 (as claimed): on a successful page of well-formed envelope, an item
\* that fails repository-record validation is skipped alone: the valid items
\* of the page are appended in order (up to the limit) and, the limit not
\* reached, the next page is requested.
C5_InvalidItemSkippedAlone ==
    [][(/\ PageStep
        /\ searchResponse'.kind = "http"
        /\ Ok(searchResponse'.status)
        /\ searchResponse'.mediaType
        /\ searchResponse'.body.json
        /\ searchResponse'.body.shape
        /\ \E i \in 1..Len(searchResponse'.body.items) :
              ~MiniItemSchema(searchResponse'.body.items[i]))
          => (/\ allRepos' = Take(allRepos \o MapMiniItem(SelectSeq(
                                   searchResponse'.body.items, MiniItemSchema)), repoLimit)
              /\ Len(allRepos') < repoLimit => (pc' = "search" /\ page' = page + 1))]_vars

\* The last search response is a successful one whose envelope failed
\* GitHubSearchResponseSchema.
EnvelopeFailed ==
    /\ searchResponse.kind = "http"
    /\ Ok(searchResponse.status)
    /\ searchResponse.mediaType
    /\ searchResponse.body.json
    /\ ~GitHubSearchResponseSchema(searchResponse.body)

\* C6 (as claimed): after a page whose envelope fails validation,
\* fetchTopicRepos returns what it accumulated and the run goes on to the
\* classification instead of aborting, also when that page is the first.
C6_EnvelopeFailureDoesNotAbort ==
    [][/\ (PageStep /\ EnvelopeFailed') => (pc' = "returned" /\ allRepos' = allRepos)
       /\ (pc = "returned" /\ EnvelopeFailed) => pc' = "classify"]_vars

\* ----------------------------------------------- claims: the classification
\* The step is a round of the for loop over the candidates.
RoundStep == pc = "classify" /\ idx' = idx + 1

\* The round fetched a manifest and parsed it (it reached the criteria).
Classified(response) ==
    LET content == fetchFileContent(response)
    IN  content.ctl = "return" /\ ~content.isNull /\ PkgSchema(content.data)

\* The manifest has a non-empty bin field, in string or in mapping form.
NonEmptyBin(manifest) ==
    \/ manifest.bin.type = "string" /\ manifest.bin.str # ""
    \/ manifest.bin.type = "object" /\ manifest.bin.keys # {}

\* The SDK is a key of dependencies or of devDependencies.
DeclaresSdk(manifest) ==
    \/ manifest.dependencies.type = "object" /\ SDK \in DOMAIN manifest.dependencies.map
    \/ manifest.devDependencies.type = "object" /\ SDK \in DOMAIN manifest.devDependencies.map

\* C7 (as claimed): a candidate that is not a known non-server and whose
\* manifest was fetched is accepted if and only if the manifest has both a
\* bin entry and the SDK dependency; with one of the two or neither it is not
\* accepted and, the round not failing, the denylist gains exactly one entry,
\* for it.
C7_AcceptedIffBinAndSdk ==
    [][(RoundStep /\ Classified(manifestResponse'))
          => LET both == /\ NonEmptyBin(manifestResponse'.body)
                         /\ DeclaresSdk(manifestResponse'.body)
             IN  /\ both => (/\ potentialServers' = Append(potentialServers, repos[idx])
                             /\ store' = store)
                 /\ ~both => (/\ potentialServers' = potentialServers
                              /\ error' # "storeNonServer" =>
                                   /\ store'.exists
                                   /\ store'.content =
                                        (IF store.exists THEN store.content ELSE Header)
                                            \o CsvLine(repos[idx]))]_vars

\* C8 (as claimed): hasSdkDep is true exactly when the SDK is a key of
\* dependencies or of devDependencies, whatever the version string.
C8_HasSdkDepIffKeyPresent ==
    Classified(manifestResponse) => (hasSdkDep <=> DeclaresSdk(manifestResponse.body))

\* C9 (as claimed): hasBin is true exactly when the manifest has a non-empty
\* bin field, string or mapping.
C9_HasBinIffNonEmptyBin ==
    Classified(manifestResponse) => (hasBin <=> NonEmptyBin(manifestResponse.body))

\* C10: a 404 to the manifest request makes fetchFileContent return null
\* without raising; the round leaves the accepted list and the denylist as
\* they were and the loop goes on with the next candidate (after the last
\* one, with the final assertion).
C10_NotFoundIsSkipped ==
    /\ \A response \in ManifestResponses :
         (response.kind = "http" /\ response.status = 404)
            => fetchFileContent(response) = Fetched("return", TRUE, NotJson)
    /\ [][(/\ RoundStep
           /\ manifestResponse'.kind = "http"
           /\ manifestResponse'.status = 404)
             => (/\ potentialServers' = potentialServers
                 /\ store' = store
                 /\ error' \in {"none", "emptyServers"}
                 /\ idx < Len(repos) => (pc' = "classify" /\ error' = "none"))]_vars

\* C10 witness: the first candidate's manifest request was answered 404,
\* nothing was accepted or stored, and the second candidate is next.
C10_Witness ==
    /\ pc = "classify"
    /\ idx = 2
    /\ idx <= Len(repos)
    /\ manifestResponse.kind = "http"
    /\ manifestResponse.status = 404
    /\ potentialServers = <<>>
    /\ store = NoFile

\* The manifest request was answered with a non-success status other than
\* 404.
OtherNonSuccess(response) ==
    /\ response.kind = "http"
    /\ ~Ok(response.status)
    /\ response.status # 404

\* C11: for every non-success status other than 404 fetchFileContent returns
\* null and does not raise; the round neither accepts nor denylists the
\* repository, the run does not reject because of it and the following
\* candidate is processed.
C11_NonSuccessIsSkipped ==
    /\ \A response \in ManifestResponses :
         OtherNonSuccess(response)
            => LET content == fetchFileContent(response)
               IN  content.ctl = "return" /\ content.isNull
    /\ [][(RoundStep /\ OtherNonSuccess(manifestResponse'))
             => (/\ potentialServers' = potentialServers
                 /\ store' = store
                 /\ appended' = appended
                 /\ error' \notin {"fetchFileContent", "pkgSchema", "storeNonServer"}
                 /\ idx < Len(repos) => (pc' = "classify" /\ error' = "none"))]_vars

\* C11 witness: the first candidate's manifest request was answered 500;
\* nothing was accepted or stored and the second candidate is next.
C11_Witness ==
    /\ pc = "classify"
    /\ idx = 2
    /\ idx <= Len(repos)
    /\ manifestResponse.kind = "http"
    /\ manifestResponse.status = 500
    /\ Len(manifestRequests) = 1
    /\ potentialServers = <<>>
    /\ appended = <<>>
    /\ store = storeAtStart

\* A manifest that is malformed: the body is not JSON, or it is JSON that is
\* not an object, or an object whose bin, dependencies or devDependencies
\* is not of the expected type.
Malformed(response) ==
    /\ response.kind = "http"
    /\ Ok(response.status)
    /\ \/ ~response.body.json
       \/ ~response.body.isObject
       \/ ~PkgSchema(response.body)

\* C12 (as claimed): a malformed manifest is a non-fatal skip: the run does
\* not reject because of it, the repository is not accepted, and the next
\* candidate is classified.
C12_MalformedManifestIsSkipped ==
    [][(RoundStep /\ Malformed(manifestResponse'))
          => (/\ potentialServers' = potentialServers
              /\ error' \notin {"fetchFileContent", "pkgSchema"}
              /\ idx < Len(repos) => pc' = "classify")]_vars

\* ------------------------------------------------------ claims: the denylist
Range(s) == {s[i] : i \in 1..Len(s)}

\* The line storeNonServer writes for repo, without its line end.
Entry(repo) == RepoPath(repo) \o <<",", Timestamp>>

\* Store st holds an entry for repo.
InStore(repo, st) ==
    /\ st.exists
    /\ LET lines == Split(st.content, "\n")
       IN  \E i \in 2..Len(lines) : lines[i] = Entry(repo)

\* The run issued no manifest request for repo, did not accept it and did
\* not append it to the store.
Untouched(repo) ==
    /\ RepoPath(repo) \notin Range(manifestRequests)
    /\ repo \notin Range(potentialServers)
    /\ repo \notin Range(appended)

\* C13 (as claimed): a candidate whose path is in the denylist store when
\* the run starts gets no manifest request during the run and is neither
\* accepted nor appended to the store again.
C13_StoredIsNeverFetched ==
    \A i \in 1..Len(repos) : InStore(repos[i], storeAtStart) => Untouched(repos[i])

\* C13 (amended): a candidate whose path is in the set getNonServerPaths
\* returned at the start of the run gets no manifest request during the run
\* and is neither accepted nor appended to the store again.
C13_LoadedIsNeverFetched ==
    \A i \in 1..Len(repos) :
        RepoPath(repos[i]) \in nonServerPaths => Untouched(repos[i])

\* C13 witness: the first candidate was in the loaded set and was skipped,
\* the second one was not and was requested.
C13_Witness ==
    /\ idx = 3
    /\ RepoPath(repos[1]) \in nonServerPaths
    /\ manifestRequests = <<RepoPath(repos[2])>>

\* No element occurs twice in sequence s.
NoRepeat(s) == \A i, j \in 1..Len(s) : s[i] = s[j] => i = j

\* C14 (as claimed): within one run at most one manifest request is issued
\* per repository path, whatever the search provider returned.
C14_OneRequestPerPath == NoRepeat(manifestRequests)

\* C15 (as claimed): the denylist store is read exactly once, at the start
\* of the run, and within one run at most one entry is appended per rejected
\* repository path.
C15_OneReadOneEntryPerPath ==
    /\ Len(loads) = (IF pc = "start" THEN 0 ELSE 1)
    /\ NoRepeat([i \in 1..Len(appended) |-> RepoPath(appended[i])])

\* ================================================ direct calls on the store
\* storeNonServer is exported: it is called with any MiniItem.  MiniItemSchema
\* takes name as any string (z.string()), so names with a comma, with a
\* slash and the empty name are among them.
CommaName == Item(<<"a">>, <<"x", ",", "y">>, "string", TRUE)
SlashName == Item(<<"a">>, <<"x", "/", "y">>, "string", TRUE)
EmptyName == Item(<<"a">>, <<>>, "string", TRUE)

StoreRepos ==
    {MiniItem(item) : item \in {it \in {RepoX, CommaName, SlashName, EmptyName, EmptyLogin} :
                                    MiniItemSchema(it)}}

StoreInit ==
    /\ pc = "idle"
    /\ topic = McpServer
    /\ repoLimit = MaxLimit
    /\ integral = TRUE
    /\ upstream = AnyUpstream
    /\ store = NoFile
    /\ Fresh

\* A call of storeNonServer(repo); at most MaxStored of them succeed.
StoreCall ==
    /\ pc \in {"idle", "loaded"}
    /\ Len(appended) < MaxStored
    /\ \E repo \in StoreRepos, io \in IoOutcomes :
         LET w == storeNonServer(repo, store, io)
         IN  /\ store' = w.store
             /\ appended' = IF w.throws THEN appended ELSE Append(appended, repo)
             /\ error' = IF w.throws THEN "storeNonServer" ELSE "none"
    /\ pc' = "idle"
    /\ UNCHANGED <<argVars, nonServerPaths, searchVars, classifyVars, runVars,
                   loads, manifestRequests>>

\* A call of getNonServerPaths() (a call that follows another one without a
\* successful storeNonServer in between is left out).
LoadCall ==
    /\ pc = "idle"
    /\ Len(loads) <= Len(appended)
    /\ \E readOk \in ReadOutcomes(store) :
         /\ nonServerPaths' = getNonServerPaths(store, readOk)
         /\ loads' = Append(loads, readOk)
    /\ pc' = "loaded"
    /\ UNCHANGED <<argVars, store, searchVars, classifyVars, error, runVars,
                   manifestRequests, appended>>

StoreNext == StoreCall \/ LoadCall

StoreSpec == StoreInit /\ [][StoreNext]_vars

\* ----------------------------------------------------- claims: the store
IsPrefix(s, t) == Len(s) <= Len(t) /\ SubSeq(t, 1, Len(s)) = s

\* The number of header rows in store st.
HeaderRows(st) ==
    LET lines == Split(st.content, "\n")
    IN  Cardinality({i \in 1..Len(lines) : lines[i] = <<"repoPath", ",", "lastChecked">>})

\* C16: the store is append-only.  Whatever a step does, what the store held
\* stays at its start, unchanged and in order; the store has one header row
\* from its creation on; a storeNonServer call that completes adds exactly
\* the line of its repository, and a call that fails adds no entry.
C16_StoreIsAppendOnly ==
    [][LET before == IF store.exists THEN store.content ELSE Header
           n == Len(appended')
       IN  /\ store.exists => (store'.exists /\ IsPrefix(store.content, store'.content))
           /\ store'.exists => (IsPrefix(Header, store'.content) /\ HeaderRows(store') = 1)
           /\ n = Len(appended) + 1
                => (store'.exists /\ store'.content = before \o CsvLine(appended'[n]))
           /\ n = Len(appended)
                => (store' = store \/ (store'.exists /\ store'.content = before))]_vars

\* C16 witness: the store was created by a first call and a second call
\* appended to it.
C16_Witness ==
    /\ pc = "idle"
    /\ Len(appended) = 2
    /\ store.exists
    /\ store.content = Header \o CsvLine(appended[1]) \o CsvLine(appended[2])

\* C17 (as claimed): after storeNonServer calls for repositories that
\* MiniItemSchema accepts, getNonServerPaths() returns exactly the paths
\* login/name of the repositories stored so far; for a store that does not
\* exist it returns the empty set.
C17_StoreThenLoadRoundTrip ==
    (pc = "loaded" /\ loads[Len(loads)])
        => nonServerPaths = {RepoPath(appended[i]) : i \in 1..Len(appended)}

\* A path of the form owner/name: exactly two parts, none empty.
OwnerSlashName(path) ==
    LET parts == Split(path, "/")
    IN  Len(parts) = 2 /\ parts[1] # <<>> /\ parts[2] # <<>>

\* C18 (as claimed): every record written to the store has a repoPath of the
\* form owner/name, and NonServerSchema rejects every repoPath that is not of
\* that form.
C18_WrittenPathsAreOwnerSlashName ==
    /\ \A i \in 1..Len(appended) : OwnerSlashName(RepoPath(appended[i]))
    /\ \A path \in {RepoPath(repo) : repo \in StoreRepos} \cup {<<>>, <<"a">>, <<"/", "x">>} :
         ~OwnerSlashName(path)
            => ~NonServerSchema([repoPath |-> path, lastChecked |-> Timestamp])

\* ========================================= two runs over a warm cache
\* A manifest of a server and one of a package that is none.
ServerManifest ==
    Manifest(TRUE, TRUE, TRUE, StringValue("cli.js"), Deps([k \in {SDK} |-> "1.0.0"]), NoDeps)
PlainManifest ==
    Manifest(TRUE, TRUE, TRUE, Undefined, Deps([k \in {"zod"} |-> "3.0.0"]), NoDeps)

\* The repositories the unchanged provider holds, and what it answers to a
\* manifest request.
CachedItems == {RepoX, CommaName}

CachedManifestResponses ==
    {ManifestResponse("http", 404, NotJson),
     ManifestResponse("http", 200, ServerManifest),
     ManifestResponse("http", 200, PlainManifest)}

Upstreams ==
    {Upstream("fixed", r, m) :
        r \in SeqsUpTo(CachedItems, MaxPageLen),
        m \in [{RepoPath(item) : item \in CachedItems} -> CachedManifestResponses]}

\* The first run starts without a denylist store.
TwoRunInit ==
    /\ pc = "start"
    /\ topic = McpServer
    /\ repoLimit \in 1..MaxLimit
    /\ integral = TRUE
    /\ upstream \in Upstreams
    /\ store = NoFile
    /\ Fresh

\* After the first run returned its list, findPotentialServers is called
\* again: same options, same upstream, the store as the first run left it.
Restart ==
    /\ pc = "done"
    /\ run = 1
    /\ run' = run + 1
    /\ firstAccepted' = potentialServers
    /\ storeAtStart' = store
    /\ pc' = "start"
    /\ nonServerPaths' = {}
    /\ repos' = <<>>
    /\ idx' = 0
    /\ potentialServers' = <<>>
    /\ manifestResponse' = NoManifestResponse
    /\ hasBin' = FALSE
    /\ hasSdkDep' = FALSE
    /\ manifestRequests' = <<>>
    /\ appended' = <<>>
    /\ UNCHANGED <<argVars, store, searchVars, error, loads>>

TwoRunNext ==
    \/ LoadNonServers
    \/ FetchPage
    \/ ResumeAfterFetch
    \/ SkipKnown
    \/ CheckRepo
    \/ Restart

TwoRunSpec == TwoRunInit /\ [][TwoRunNext]_vars

\* ------------------------------------------------- claims: idempotence
\* C19 (as claimed): of two consecutive runs against an unchanged upstream,
\* the second starting from the store the first left, the second returns the
\* list the first returned, in the same order (stated here for the runs in
\* which the store is read when it exists and no write to it fails).
C19_SecondRunReturnsSameList ==
    (/\ run = 2
     /\ pc \in {"done", "aborted"}
     /\ error # "storeNonServer"
     /\ \A i \in 1..Len(loads) : loads[i])
        => (pc = "done" /\ potentialServers = firstAccepted)

\* ================================= a direct call of fetchTopicRepos
\* fetchTopicRepos is exported: it is called with any topic and any number
\* as repoLimit (here -1, -0.5, 0, 0.5, 1, 1.5, ...).
Topics == {<<>>, McpServer}

DirectInit ==
    /\ pc = "call"
    /\ topic \in Topics
    /\ repoLimit \in -1..MaxLimit
    /\ integral \in BOOLEAN
    /\ upstream = BareUpstream
    /\ store = File(FileOf(<<MiniItem(RepoX)>>))
    /\ Fresh

\* The call up to its first request: the assertions.
CallFetchTopicRepos ==
    /\ pc = "call"
    /\ IF Preconditions(topic, integral, repoLimit)
       THEN pc' = "search" /\ error' = error
       ELSE pc' = "aborted" /\ error' = "precondition"
    /\ UNCHANGED <<argVars, store, nonServerPaths, searchVars, classifyVars,
                   runVars, historyVars>>

DirectNext == CallFetchTopicRepos \/ FetchPage

DirectSpec == DirectInit /\ [][DirectNext]_vars

\* ---------------------------------------------- claims: preconditions
\* The options are invalid: an empty topic, a repoLimit that is no integer
\* or one that is not positive.
InvalidOptions == topic = <<>> \/ ~integral \/ repoLimit <= 0

\* C20: fetchTopicRepos called with invalid options raises at once: the
\* call's first step is the rejection, no search request is issued and
\* neither the accumulator nor the denylist store changes.
C20_InvalidOptionsRaiseFirst ==
    [][InvalidOptions
          => (/\ pc' = "aborted"
              /\ error' = "precondition"
              /\ requested' = <<>>
              /\ searchResponse' = NoSearchResponse
              /\ allRepos' = <<>>
              /\ page' = page
              /\ store' = store)]_vars

\* C20 witness: a call with an empty topic and a valid repoLimit was
\* rejected before any request.
C20_Witness ==
    /\ pc = "aborted"
    /\ error = "precondition"
    /\ topic = <<>>
    /\ integral
    /\ repoLimit > 0
    /\ requested = <<>>

\* ------------------------------------------------ claims: the status line
\* A successful page: 2xx with a JSON body that GitHubSearchResponseSchema
\* accepts, whatever its headers.
SuccessfulPage(response) ==
    /\ response.kind = "http"
    /\ Ok(response.status)
    /\ response.body.json
    /\ GitHubSearchResponseSchema(response.body)

C22_EveryFurtherPageMakesProgress ==
    [][(PageStep /\ pc' = "search") => Len(allRepos') > Len(allRepos)]_vars

\* ---------------------------------------------------- claims: page order
\* C23: within one call of fetchTopicRepos the i-th search request is for
\* page i with per_page = 100 (no page skipped, none requested twice); a
\* further page is requested only after a page that was successful, valid
\* and non-empty and left the accumulator below repoLimit; once the
\* accumulator has reached repoLimit no page is requested.
C23_PagesRequestedInOrder ==
    /\ [](\A i \in 1..Len(requested) : requested[i] = [page |-> i, per_page |-> 100])
    /\ [][/\ (PageStep /\ requested # <<>>)
               => (/\ ValidPage(searchResponse)
                   /\ searchResponse.body.items # <<>>
                   /\ Len(allRepos) < repoLimit)
          /\ Len(allRepos) >= repoLimit => requested' = requested]_vars

\* C23 witness: the call returned after pages 1 and 2, the second of which
\* filled the accumulator.
C23_Witness ==
    /\ pc = "returned"
    /\ requested = <<[page |-> 1, per_page |-> 100], [page |-> 2, per_page |-> 100]>>
    /\ Len(allRepos) = repoLimit
    /\ searchResponse.body.items # <<>>

\* ------------------------------------------------------ claims: outcomes
\* s is a subsequence of t.
RECURSIVE IsSubsequence(_, _)
IsSubsequence(s, t) ==
    IF s = <<>> THEN TRUE
    ELSE IF t = <<>> THEN FALSE
    ELSE IF Head(s) = Head(t) THEN IsSubsequence(Tail(s), Tail(t))
    ELSE IsSubsequence(s, Tail(t))

\* The number of the four outcomes that the round just made had.
OutcomesOfRound ==
    LET known == manifestRequests' = manifestRequests
        response == manifestResponse'
        content == fetchFileContent(response)
        noManifest == ~known /\ content.ctl = "return" /\ content.isNull
        accepted == potentialServers' = Append(potentialServers, repos[idx])
        rejected == appended' = Append(appended, repos[idx])
        unchanged == potentialServers' = potentialServers /\ appended' = appended
    IN  Cardinality({o \in {"known", "noManifest", "accepted", "rejected"} :
            \/ o = "known" /\ known /\ unchanged
            \/ o = "noManifest" /\ noManifest /\ unchanged
            \/ o = "accepted" /\ ~known /\ accepted /\ appended' = appended
            \/ o = "rejected" /\ ~known /\ rejected /\ potentialServers' = potentialServers})

\* The round raised: the run ended in it.
RoundRaised == error' \in {"fetchFileContent", "pkgSchema", "storeNonServer"}

\* C24 (as claimed): in every run the accepted list and the entries appended
\* to the denylist during the run are disjoint, the accepted list is a
\* subsequence of the candidates, and every round that did not end the run
\* had exactly one of the outcomes skipped as known, skipped without
\* manifest, accepted, rejected and appended.
C24_OutcomesAreDisjoint ==
    /\ [](/\ Range(potentialServers) \cap Range(appended) = {}
          /\ IsSubsequence(potentialServers, repos))
    /\ [][(RoundStep /\ ~RoundRaised) => OutcomesOfRound = 1]_vars

\* ------------------------------------------------- claims: the final result
RECURSIVE CsvLines(_)
CsvLines(rs) == IF rs = <<>> THEN <<>> ELSE CsvLine(Head(rs)) \o CsvLines(Tail(rs))

\* The store holds what it held when the run started and, after that, the
\* lines appended during the run.
AppendedRemain ==
    IF appended = <<>> THEN store = storeAtStart
    ELSE /\ store.exists
         /\ store.content = (IF storeAtStart.exists THEN storeAtStart.content ELSE Header)
                                \o CsvLines(appended)

\* C25: findPotentialServers returns normally only with a non-empty accepted
\* list (exit code 0).  With no candidate, and with candidates none of which
\* was accepted, it raises an assertion error (exit code 1), in the second
\* case after every candidate was processed, and the entries appended during
\* the run are still in the store.
C25_ReturnsOnlyNonEmptyList ==
    /\ pc = "done" => (potentialServers # <<>> /\ ExitCode = 0)
    /\ (pc = "classify" /\ idx > Len(repos)) => FALSE
    /\ (pc = "aborted" /\ error = "emptyRepos")
          => (repos = <<>> /\ ExitCode = 1 /\ AppendedRemain)
    /\ (pc = "aborted" /\ error = "emptyServers")
          => (/\ repos # <<>>
              /\ idx = Len(repos) + 1
              /\ potentialServers = <<>>
              /\ ExitCode = 1
              /\ AppendedRemain)

\* C25 witness: the only candidate was rejected and appended to the store,
\* then the final assertion raised, and the entry is in the store.
C25_Witness ==
    /\ pc = "aborted"
    /\ error = "emptyServers"
    /\ Len(appended) = 1
    /\ store # storeAtStart
    /\ InStore(appended[1], store)

=============================================================================
